---------------------------- MODULE Spec2Model ----------------------------
(***************************************************************************)
(* A model of uofm_calendar_import.py: the instructional-week segmenter,   *)
(* the deadline-section scanner and its end-date extractor, the term-block *)
(* segmenter, the calendar upsert and the orchestration of one run.        *)
(*                                                                         *)
(* Dates are day numbers; day 0 is a Monday, so date.weekday() is d % 7    *)
(* (Monday = 0 .. Sunday = 6) and timedelta(days=k) is + k.                *)
(***************************************************************************)
EXTENDS Integers, Sequences, FiniteSets, TLC

VARIABLES
    \* instructional_week_events: arguments, loop variables, position
    first_class, last_class, blackout_ranges, cur, week_num, events, wpc,
    \* parse_deadlines_drop_withdraw: the page's raw lines, the index of the
    \* next line of the loop, the loop's flags and captures, position
    raw_lines, idx, in_drop, in_withdraw, full_drop_line, full_withdraw_line, dpc,
    \* its results
    last_drop, last_withdraw,
    \* extract_term_block_text: the page's text lines, the arguments, the
    \* returned block (a sequence of lines), position
    academic_lines, year, semester, term_block, tpc,
    \* the calendar sink: the events Google Calendar holds, in the order its
    \* list request returns them, and the number of requests it has served
    calendar, sink_calls,
    \* upsert_event called on its own: the calls made so far
    upserts,
    \* main and build_term_events: position, the --dry-run flag, the error
    \* that ended the run, the locals of build_term_events, the fetches of
    \* the deadlines page so far, the fact list, the warnings printed, the
    \* index of the next fact to write
    rpc, dry_run, error, term_text, first_day, last_day, study_day,
    exams_rng, breaks, single_holidays, dd_fetches, dd_html, dd_url_used, breaks_in_term,
    holidays_in_term, events_to_create, printed, next_event

weekVars == <<first_class, last_class, blackout_ranges, cur, week_num, events, wpc>>

scanVars == <<raw_lines, idx, in_drop, in_withdraw, full_drop_line,
              full_withdraw_line, dpc, last_drop, last_withdraw>>

termVars == <<academic_lines, year, semester, term_block, tpc>>

sinkVars == <<calendar, sink_calls>>

runVars == <<rpc, dry_run, error, term_text, first_day, last_day, study_day, exams_rng,
             breaks, single_holidays, dd_fetches, dd_html, dd_url_used,
             breaks_in_term, holidays_in_term, events_to_create, printed,
             next_event>>

vars == <<weekVars, scanVars, termVars, sinkVars, upserts, runVars>>

\* what each function leaves alone: the state of the others
notWeekVars == <<scanVars, termVars, sinkVars, upserts, runVars>>
notScanVars == <<weekVars, termVars, sinkVars, upserts, runVars>>
notTermVars == <<weekVars, scanVars, sinkVars, upserts, runVars>>

----------------------------------------------------------------------------
(* Bounds of the model *)

\* the last day number a date argument may take
MaxDay == 14
\* the longest blackout list handed to instructional_week_events
MaxBlackouts == 1

\* the longest deadlines page, in lines
MaxLines == 5
\* the longest date text after "FULL", in chunks
MaxChunks == 4
\* the longest academic-year page, in lines
MaxAcademicLines == 4

Days == 0..MaxDay

\* Python's None where a line is expected (a captured line starts with FULL
\* and is never the empty line, and "not line" treats both alike)
NoLine == <<>>

\* Python's None where a day number is expected
NoDay == -1

\* Python's None where a DateRange of day numbers is expected
NoRange == [start |-> -1, end |-> -1]

\* Python's None where a calendar date (year, month, day) is expected
NoDate == [year |-> 0, month |-> 0, day |-> 0]

----------------------------------------------------------------------------
(* Utilities: dates and ranges *)

Max2(a, b) == IF a >= b THEN a ELSE b
Min2(a, b) == IF a <= b THEN a ELSE b

DateRange(s, e) == [start |-> s, end |-> e]

Contains(r, d) == r.start <= d /\ d <= r.end

Intersects(r, o) == ~(r.end < o.start \/ o.end < r.start)

Clamp(r, lo, hi) == DateRange(Max2(r.start, lo), Min2(r.end, hi))

\* the days start, start+1, .. end in order; empty when start > end
daterange_inclusive(s, e) ==
    IF s <= e THEN [i \in 1..(e - s + 1) |-> s + i - 1] ELSE <<>>

weekday(d) == d % 7

monday_of_week(d) == d - weekday(d)

----------------------------------------------------------------------------
(* Week labeling logic: instructional_week_events *)

is_blackout(day) ==
    \E i \in 1..Len(blackout_ranges) : Contains(blackout_ranges[i], day)

wk_start == monday_of_week(first_class)
wk_end_boundary == monday_of_week(last_class)

\* the Mon-Fri window of the week starting at mon, clamped to the term
week_range(mon) == Clamp(DateRange(mon, mon + 4), first_class, last_class)

\* mutant: blackout days are not excluded
IsInstructionalDayNoBlackout(d) == weekday(d) < 5

IsInstructionalDay(d) == weekday(d) < 5 /\ ~is_blackout(d)

instructional_days(mon) ==
    SelectSeq(daterange_inclusive(week_range(mon).start, week_range(mon).end),
              IsInstructionalDay)

\* mutant: a week is short only when it has fewer than 4 days
IsShortOffByOne(days) == Len(days) < 4

IsShort(days) == Len(days) < 5

WeekTitle(n, short) ==
    <<"Week", n>> \o (IF short THEN <<"(short)">> ELSE <<>>)

WeekEvent(n, days) ==
    [title |-> WeekTitle(n, IsShort(days)), start |-> days[1], end |-> days[Len(days)]]

WeekIdle ==
    /\ first_class = 0 /\ last_class = 0 /\ blackout_ranges = <<>> /\ cur = 0
    /\ week_num = 0 /\ events = <<>> /\ wpc = "idle"

ScanIdle ==
    /\ raw_lines = <<>> /\ idx = 0 /\ in_drop = FALSE /\ in_withdraw = FALSE
    /\ full_drop_line = NoLine /\ full_withdraw_line = NoLine /\ dpc = "idle"
    /\ last_drop = NoDate /\ last_withdraw = NoDate

TermIdle ==
    /\ academic_lines = <<>> /\ year = 0 /\ semester = "" /\ term_block = <<>>
    /\ tpc = "idle"

SinkIdle == calendar = <<>> /\ sink_calls = 0 /\ upserts = 0

RunIdle ==
    /\ rpc = "idle" /\ dry_run = FALSE /\ error = "" /\ term_text = <<>>
    /\ first_day = NoDay
    /\ last_day = NoDay /\ study_day = NoDay /\ exams_rng = NoRange
    /\ breaks = <<>> /\ single_holidays = <<>> /\ dd_fetches = <<>>
    /\ dd_html = <<>> /\ dd_url_used = <<>> /\ breaks_in_term = <<>>
    /\ holidays_in_term = <<>> /\ events_to_create = <<>> /\ printed = {}
    /\ next_event = 0

OthersIdle == SinkIdle /\ RunIdle

\* the blackout ranges drawn as input: in-range, start <= end, at most a
\* working week long
BlackoutRange ==
    {r \in [start : Days, end : Days] : r.start <= r.end /\ r.end - r.start <= 4}

BlackoutLists == UNION {[1..n -> BlackoutRange] : n \in 0..MaxBlackouts}

WeekInit ==
    /\ first_class \in 0..6
    /\ last_class \in Days
    /\ blackout_ranges \in BlackoutLists
    /\ cur = monday_of_week(first_class)
    /\ week_num = 1
    /\ events = <<>>
    /\ wpc = "loop"
    /\ ScanIdle
    /\ TermIdle
    /\ OthersIdle

\* mutant: a skipped week consumes a week number
WeekSkipConsumesNumber ==
    /\ wpc = "loop"
    /\ cur <= wk_end_boundary
    /\ Len(instructional_days(cur)) = 0
    /\ cur' = cur + 7
    /\ week_num' = week_num + 1
    /\ UNCHANGED <<first_class, last_class, blackout_ranges, events, wpc>>
    /\ UNCHANGED notWeekVars

\* a week with no instructional weekday: no event, the counter is kept
WeekSkip ==
    /\ wpc = "loop"
    /\ cur <= wk_end_boundary
    /\ Len(instructional_days(cur)) = 0
    /\ cur' = cur + 7
    /\ UNCHANGED <<first_class, last_class, blackout_ranges, week_num, events, wpc>>
    /\ UNCHANGED notWeekVars

WeekEmit ==
    /\ wpc = "loop"
    /\ cur <= wk_end_boundary
    /\ Len(instructional_days(cur)) # 0
    /\ events' = Append(events, WeekEvent(week_num, instructional_days(cur)))
    /\ week_num' = week_num + 1
    /\ cur' = cur + 7
    /\ UNCHANGED <<first_class, last_class, blackout_ranges, wpc>>
    /\ UNCHANGED notWeekVars

WeekReturn ==
    /\ wpc = "loop"
    /\ cur > wk_end_boundary
    /\ wpc' = "done"
    /\ UNCHANGED <<first_class, last_class, blackout_ranges, cur, week_num, events>>
    /\ UNCHANGED notWeekVars

WeekNext == WeekSkip \/ WeekEmit \/ WeekReturn

SpecWeeks == WeekInit /\ [][WeekNext]_vars

----------------------------------------------------------------------------
(* Text.  A line of text is the sequence of its tokens: a word (a maximal  *)
(* run of letters), a number (a maximal run of digits), " " for one        *)
(* whitespace character, or one punctuation character.                     *)

MonthNames == {"January", "February", "March"}

\* tokens matched by [A-Za-z]+
IsWord(t) ==
    t \in MonthNames \cup {"FULL", "Drop", "Period", "Withdrawal", "withdrawal",
                           "period", "follows"}

\* tokens matched by \d{1,2}
IsDay(t) == t \in {"2", "16", "20", "28", "29"}

\* tokens matched by \d{4}
IsYear(t) == t \in {"2026", "2027"}

IsNumber(t) == IsDay(t) \/ IsYear(t)

\* int(...) of a number token
IntOf(t) ==
    CASE t = "2" -> 2
      [] t = "16" -> 16
      [] t = "20" -> 20
      [] t = "28" -> 28
      [] t = "29" -> 29
      [] t = "2026" -> 2026
      [] t = "2027" -> 2027

\* the month dateutil reads from a month name (0: not a month name)
MonthNum(w) ==
    CASE w = "January" -> 1
      [] w = "February" -> 2
      [] w = "March" -> 3
      [] OTHER -> 0

\* dateparser.parse(f"{mon} {day}, {year}").date()
MakeDate(mon, d, y) ==
    [year |-> IntOf(y), month |-> MonthNum(mon), day |-> IntOf(d)]

\* the token at position i, or a token no pattern matches past the end
Tok(r, i) == IF i >= 1 /\ i <= Len(r) THEN r[i] ELSE "<end>"

RECURSIVE LStripSet(_, _)
\* re.sub(r"^[...]+", "", s): drop the leading tokens that are in S
LStripSet(s, S) ==
    IF s # <<>> /\ Head(s) \in S THEN LStripSet(Tail(s), S) ELSE s

RECURSIVE RStrip(_)
RStrip(s) ==
    IF s # <<>> /\ s[Len(s)] = " " THEN RStrip(SubSeq(s, 1, Len(s) - 1)) ELSE s

\* str.strip()
Strip(s) == RStrip(LStripSet(s, {" "}))

RECURSIVE CollapseSpaces(_)
\* re.sub(r"\s+", " ", s)
CollapseSpaces(s) ==
    IF Len(s) < 2 THEN s
    ELSE IF s[1] = " " /\ s[2] = " " THEN CollapseSpaces(Tail(s))
    ELSE <<s[1]>> \o CollapseSpaces(Tail(s))

normalize_whitespace(s) == Strip(CollapseSpaces(s))

RECURSIVE SkipSpaces(_, _)
\* the first position from i on that holds no whitespace
SkipSpaces(r, i) == IF Tok(r, i) = " " THEN SkipSpaces(r, i + 1) ELSE i

----------------------------------------------------------------------------
(* Deadline section scanner: parse_deadlines_drop_withdraw                  *)

\* the lines a deadlines page is made of
PageLines ==
    { <<"Drop", " ", "Period">>,
      <<"*", " ", "withdrawal", " ", "period">>,
      <<"FULL", " ", "-", " ", "January", " ", "20", ",", " ", "2026">>,
      <<"-", " ", "FULL", " ", "-", " ", "February", " ", "2", ",", " ", "2026">>,
      <<"1ST", " ", "-", " ", "January", " ", "20", ",", " ", "2026">>,
      <<"FULL", " ", "Withdrawal", " ", "Period", " ", "follows", " ", "Drop",
        " ", "Period">> }

\* re.sub(r"^[\s\-\*\u2022\u00B7]+", "", s).strip()
strip_bullets(l) == Strip(LStripSet(l, {" ", "-", "*"}))

\* lines = [strip_bullets(l) for l in raw_lines]
lines == [i \in 1..Len(raw_lines) |-> strip_bullets(raw_lines[i])]

\* str.lower() on the words the patterns name (re.IGNORECASE)
Lower(t) ==
    CASE t = "Drop" -> "drop"
      [] t = "Withdrawal" -> "withdrawal"
      [] t = "Period" -> "period"
      [] OTHER -> t

ContainsPhrase(l, w1, w2) ==
    \E i \in 1..(Len(l) - 2) :
        Lower(l[i]) = w1 /\ l[i + 1] = " " /\ Lower(l[i + 2]) = w2

\* re.search(r"Drop Period", l, re.IGNORECASE)
MatchesDropPeriod(l) == ContainsPhrase(l, "drop", "period")

\* re.search(r"Withdrawal Period", l, re.IGNORECASE)
MatchesWithdrawalPeriod(l) == ContainsPhrase(l, "withdrawal", "period")

\* re.match(r"^FULL\b", l)
StartsWithFull(l) == Tok(l, 1) = "FULL" /\ ~IsNumber(Tok(l, 2))

----------------------------------------------------------------------------
(* extract_end_date_from_full_line *)

\* re.sub(r"^FULL\b", "", line)
RemoveFull(l) == IF StartsWithFull(l) THEN Tail(l) ELSE l

\* rest.replace(en dash, "-"); "ndash" is the en dash character
ReplaceEnDash(s) == [i \in 1..Len(s) |-> IF s[i] = "ndash" THEN "-" ELSE s[i]]

\* lines 332-335: the line without its FULL token and leading separators
Rest(line) ==
    normalize_whitespace(ReplaceEnDash(
        Strip(LStripSet(Strip(RemoveFull(line)), {" ", "-", "ndash", ":"}))))

NoMatch == [ok |-> FALSE, next |-> 0, mon |-> "", day |-> "", year |-> ""]

\* [A-Za-z]+\s+\d{1,2},\s*\d{4} matched at position i
MatchDate(r, i) ==
    LET d == SkipSpaces(r, i + 1)
        y == SkipSpaces(r, d + 2)
    IN  IF /\ IsWord(Tok(r, i))
           /\ d > i + 1
           /\ IsDay(Tok(r, d))
           /\ Tok(r, d + 1) = ","
           /\ IsYear(Tok(r, y))
        THEN [ok |-> TRUE, next |-> y + 1, mon |-> r[i], day |-> r[d], year |-> r[y]]
        ELSE NoMatch

\* re.fullmatch(r"[A-Za-z]+\s+\d{1,2},\s*\d{4}", rest)
MatchCaseA(r) ==
    LET m == MatchDate(r, 1)
    IN  IF m.ok /\ m.next = Len(r) + 1 THEN m ELSE NoMatch

\* ([A-Za-z]+)\s+(\d{1,2})\s*-\s* matched at position 1: the position after
\* it, or 0
MatchRangeHead(r) ==
    LET d == SkipSpaces(r, 2)
        h == SkipSpaces(r, d + 1)
    IN  IF IsWord(Tok(r, 1)) /\ d > 2 /\ IsDay(Tok(r, d)) /\ Tok(r, h) = "-"
        THEN SkipSpaces(r, h + 1)
        ELSE 0

\* mutant: the end date is built from the first month and day of the range
MatchCaseBFirstMonth(r) ==
    LET p == MatchRangeHead(r)
        m == MatchDate(r, p)
    IN  IF p > 0 /\ m.ok /\ m.next = Len(r) + 1
        THEN [m EXCEPT !.mon = r[1], !.day = r[SkipSpaces(r, 2)]]
        ELSE NoMatch

\* re.fullmatch(r"([A-Za-z]+)\s+(\d{1,2})\s*-\s*([A-Za-z]+)\s+(\d{1,2}),\s*(\d{4})", rest)
\* with groups 3, 4 and 5
MatchCaseB(r) ==
    LET p == MatchRangeHead(r)
        m == MatchDate(r, p)
    IN  IF p > 0 /\ m.ok /\ m.next = Len(r) + 1 THEN m ELSE NoMatch

\* re.fullmatch(r"([A-Za-z]+)\s+(\d{1,2})\s*-\s*(\d{1,2}),\s*(\d{4})", rest)
\* with groups 1, 3 and 4
MatchCaseC(r) ==
    LET p == MatchRangeHead(r)
        y == SkipSpaces(r, p + 2)
    IN  IF /\ p > 0
           /\ IsDay(Tok(r, p))
           /\ Tok(r, p + 1) = ","
           /\ IsYear(Tok(r, y))
           /\ y = Len(r)
        THEN [ok |-> TRUE, next |-> y + 1, mon |-> r[1], day |-> r[p], year |-> r[y]]
        ELSE NoMatch

RECURSIVE FindAllDates(_, _)
\* re.findall(r"[A-Za-z]+\s+\d{1,2},\s*\d{4}", rest): the matches from
\* position i on, left to right, not overlapping
FindAllDates(r, i) ==
    IF i > Len(r) THEN <<>>
    ELSE LET m == MatchDate(r, i)
         IN  IF m.ok THEN <<m>> \o FindAllDates(r, m.next)
             ELSE FindAllDates(r, i + 1)

DateOf(m) == MakeDate(m.mon, m.day, m.year)

extract_end_date_from_full_line(line) ==
    IF line = NoLine THEN NoDate
    ELSE LET rest == Rest(line)
             candidates == FindAllDates(rest, 1)
         IN  IF MatchCaseA(rest).ok THEN DateOf(MatchCaseA(rest))
             ELSE IF MatchCaseB(rest).ok THEN DateOf(MatchCaseB(rest))
             ELSE IF MatchCaseC(rest).ok THEN DateOf(MatchCaseC(rest))
             ELSE IF candidates # <<>> THEN DateOf(candidates[Len(candidates)])
             ELSE NoDate

Pages == UNION {[1..n -> PageLines] : n \in 0..MaxLines}

ScanInit ==
    /\ raw_lines \in Pages
    /\ idx = 1
    /\ in_drop = FALSE
    /\ in_withdraw = FALSE
    /\ full_drop_line = NoLine
    /\ full_withdraw_line = NoLine
    /\ dpc = "scan"
    /\ last_drop = NoDate
    /\ last_withdraw = NoDate
    /\ WeekIdle
    /\ TermIdle
    /\ OthersIdle

Scanning == dpc = "scan" /\ idx <= Len(lines)

ScanDropHeader ==
    /\ Scanning
    /\ MatchesDropPeriod(lines[idx])
    /\ in_drop' = TRUE
    /\ in_withdraw' = FALSE
    /\ idx' = idx + 1
    /\ UNCHANGED <<raw_lines, full_drop_line, full_withdraw_line, dpc,
                   last_drop, last_withdraw>>
    /\ UNCHANGED notScanVars

\* mutant: the withdrawal header leaves in_drop as it is
ScanWithdrawHeaderKeepsDrop ==
    /\ Scanning
    /\ ~MatchesDropPeriod(lines[idx])
    /\ MatchesWithdrawalPeriod(lines[idx])
    /\ in_drop' = in_drop
    /\ in_withdraw' = TRUE
    /\ idx' = idx + 1
    /\ UNCHANGED <<raw_lines, full_drop_line, full_withdraw_line, dpc,
                   last_drop, last_withdraw>>
    /\ UNCHANGED notScanVars

ScanWithdrawHeader ==
    /\ Scanning
    /\ ~MatchesDropPeriod(lines[idx])
    /\ MatchesWithdrawalPeriod(lines[idx])
    /\ in_drop' = FALSE
    /\ in_withdraw' = TRUE
    /\ idx' = idx + 1
    /\ UNCHANGED <<raw_lines, full_drop_line, full_withdraw_line, dpc,
                   last_drop, last_withdraw>>
    /\ UNCHANGED notScanVars

NotHeader(l) == ~MatchesDropPeriod(l) /\ ~MatchesWithdrawalPeriod(l)

CapturesDrop(l) == in_drop /\ full_drop_line = NoLine /\ StartsWithFull(l)

CapturesWithdraw(l) ==
    in_withdraw /\ full_withdraw_line = NoLine /\ StartsWithFull(l)

\* mutant: a later FULL line of the drop section replaces the captured one
ScanCaptureDropLast ==
    /\ Scanning
    /\ NotHeader(lines[idx])
    /\ in_drop /\ StartsWithFull(lines[idx])
    /\ full_drop_line' = lines[idx]
    /\ idx' = idx + 1
    /\ UNCHANGED <<raw_lines, in_drop, in_withdraw, full_withdraw_line, dpc,
                   last_drop, last_withdraw>>
    /\ UNCHANGED notScanVars

ScanCaptureDrop ==
    /\ Scanning
    /\ NotHeader(lines[idx])
    /\ CapturesDrop(lines[idx])
    /\ full_drop_line' = lines[idx]
    /\ idx' = idx + 1
    /\ UNCHANGED <<raw_lines, in_drop, in_withdraw, full_withdraw_line, dpc,
                   last_drop, last_withdraw>>
    /\ UNCHANGED notScanVars

ScanCaptureWithdraw ==
    /\ Scanning
    /\ NotHeader(lines[idx])
    /\ ~CapturesDrop(lines[idx])
    /\ CapturesWithdraw(lines[idx])
    /\ full_withdraw_line' = lines[idx]
    /\ idx' = idx + 1
    /\ UNCHANGED <<raw_lines, in_drop, in_withdraw, full_drop_line, dpc,
                   last_drop, last_withdraw>>
    /\ UNCHANGED notScanVars

BothCaptured == full_drop_line # NoLine /\ full_withdraw_line # NoLine

\* if full_drop_line and full_withdraw_line: break
ScanBreak ==
    /\ Scanning
    /\ NotHeader(lines[idx])
    /\ ~CapturesDrop(lines[idx])
    /\ ~CapturesWithdraw(lines[idx])
    /\ BothCaptured
    /\ dpc' = "scanned"
    /\ UNCHANGED <<raw_lines, idx, in_drop, in_withdraw, full_drop_line,
                   full_withdraw_line, last_drop, last_withdraw>>
    /\ UNCHANGED notScanVars

\* a line no branch takes: the loop goes on to the next line
ScanPass ==
    /\ Scanning
    /\ NotHeader(lines[idx])
    /\ ~CapturesDrop(lines[idx])
    /\ ~CapturesWithdraw(lines[idx])
    /\ ~BothCaptured
    /\ idx' = idx + 1
    /\ UNCHANGED <<raw_lines, in_drop, in_withdraw, full_drop_line,
                   full_withdraw_line, dpc, last_drop, last_withdraw>>
    /\ UNCHANGED notScanVars

\* the loop ran out of lines
ScanEnd ==
    /\ dpc = "scan"
    /\ idx > Len(lines)
    /\ dpc' = "scanned"
    /\ UNCHANGED <<raw_lines, idx, in_drop, in_withdraw, full_drop_line,
                   full_withdraw_line, last_drop, last_withdraw>>
    /\ UNCHANGED notScanVars

\* lines 360-362: the end dates of the two captured lines are returned
ExtractEndDates ==
    /\ dpc = "scanned"
    /\ last_drop' = extract_end_date_from_full_line(full_drop_line)
    /\ last_withdraw' = extract_end_date_from_full_line(full_withdraw_line)
    /\ dpc' = "done"
    /\ UNCHANGED <<raw_lines, idx, in_drop, in_withdraw, full_drop_line,
                   full_withdraw_line>>
    /\ UNCHANGED notScanVars

ScanNext ==
    \/ ScanDropHeader
    \/ ScanWithdrawHeader
    \/ ScanCaptureDrop
    \/ ScanCaptureWithdraw
    \/ ScanBreak
    \/ ScanPass
    \/ ScanEnd
    \/ ExtractEndDates

SpecScan == ScanInit /\ [][ScanNext]_vars

----------------------------------------------------------------------------
(* extract_end_date_from_full_line on its own: the captured lines are      *)
(* drawn from texts made of date, range and separator chunks.              *)

FullPrefixes ==
    { <<"FULL", " ", " ", "-", " ", " ">>,
      <<"FULL", ":", " ">> }

DateChunks ==
    { <<"January", " ", "20", ",", " ", "2026">>,
      <<"February", " ", "2", ",", "2026">>,
      <<"January", " ", "20">>,
      <<"February", " ", "2">>,
      <<"28">>,
      <<",", " ", "2026">>,
      <<" ", "-", " ">>,
      <<"-">>,
      <<"ndash">>,
      <<" ", "/", " ">> }

RECURSIVE DateTexts(_)
\* the texts made of at most n chunks
DateTexts(n) ==
    IF n = 0 THEN {<<>>}
    ELSE LET T == DateTexts(n - 1)
         IN  T \cup {t \o c : t \in T, c \in DateChunks}

\* "FULL  -  January 20 - February 2, 2026"
ExampleTwoMonths ==
    <<"FULL", " ", " ", "-", " ", " ", "January", " ", "20", " ", "-", " ",
      "February", " ", "2", ",", " ", "2026">>

\* "FULL - March 16-29, 2026"
ExampleOneMonth ==
    <<"FULL", " ", "-", " ", "March", " ", "16", "-", "29", ",", " ", "2026">>

\* "FULL - January 20, 2026 / February 2,2026"
ExampleTwoDates ==
    <<"FULL", " ", "-", " ", "January", " ", "20", ",", " ", "2026", " ", "/",
      " ", "February", " ", "2", ",", "2026">>

FullLines ==
    {NoLine, ExampleTwoMonths, ExampleOneMonth}
        \cup {p \o t : p \in FullPrefixes, t \in DateTexts(MaxChunks)}

EndDateInit ==
    /\ full_drop_line \in FullLines
    /\ full_withdraw_line \in {NoLine, ExampleTwoDates}
    /\ raw_lines = <<>>
    /\ idx = 1
    /\ in_drop = FALSE
    /\ in_withdraw = FALSE
    /\ last_drop = NoDate
    /\ last_withdraw = NoDate
    /\ dpc = "scanned"
    /\ WeekIdle
    /\ TermIdle
    /\ OthersIdle

EndDateNext == ExtractEndDates

SpecEndDate == EndDateInit /\ [][EndDateNext]_vars

----------------------------------------------------------------------------
(* Text block segmenter: extract_term_block_text *)

\* the lines full_text.splitlines() gives for an academic-year page
AcademicLines ==
    { <<"Spring", " ", "2026">>,
      <<"Spring", " ", "2027">>,
      <<"Summer", " ", "2026">>,
      <<"Exams">>,
      <<"Spring", " ", "20261">>,
      <<"PreSpring", " ", "2026">>,
      <<" ">> }

AcademicPages == UNION {[1..n -> AcademicLines] : n \in 0..MaxAcademicLines}

\* lines 213-214: each line normalized, the empty ones dropped
NonEmpty(l) == l # <<>>

TextLines(raw) ==
    SelectSeq([i \in 1..Len(raw) |-> normalize_whitespace(raw[i])], NonEmpty)

\* str(year) in an f-string
YearText(y) == CASE y = 2026 -> "2026" [] y = 2027 -> "2027"

\* the word tokens that end with the characters of w
EndsWith(t, w) == t = w \/ (w = "Spring" /\ t = "PreSpring")

\* the number tokens that start with the digits of y
StartsWithDigits(t, y) == t = y \/ (y = "2026" /\ t = "20261")

\* f"{name} {year}" in l: a substring test
ContainsTermKey(l, name, y) ==
    \E i \in 1..(Len(l) - 2) :
        /\ EndsWith(l[i], name)
        /\ l[i + 1] = " "
        /\ StartsWithDigits(l[i + 2], YearText(y))

\* re.search(r"\b(Summer|Fall|Spring)\s+\d{4}\b", l)
MatchesTermHeading(l) ==
    \E i \in 1..(Len(l) - 2) :
        /\ l[i] \in {"Summer", "Fall", "Spring"}
        /\ SkipSpaces(l, i + 1) > i + 1
        /\ IsYear(Tok(l, SkipSpaces(l, i + 1)))

\* re.search(r"\bSpring\s+\d{4}\b", l)
MatchesSpringHeading(l) ==
    \E i \in 1..(Len(l) - 2) :
        /\ l[i] = "Spring"
        /\ SkipSpaces(l, i + 1) > i + 1
        /\ IsYear(Tok(l, SkipSpaces(l, i + 1)))

\* next((i for i in ... if ...), none) over the indices S that qualify
FirstOf(S, none) ==
    IF S = {} THEN none ELSE CHOOSE i \in S : \A j \in S : i <= j

\* mutant: the last line containing the key opens the block
SpringStartLast(ls, y) ==
    LET S == {i \in 1..Len(ls) : ContainsTermKey(ls[i], "Spring", y)}
    IN  IF S = {} THEN 0 ELSE CHOOSE i \in S : \A j \in S : i >= j

\* line 219: start_idx, 0 for None
SpringStart(ls, y) ==
    FirstOf({i \in 1..Len(ls) : ContainsTermKey(ls[i], "Spring", y)}, 0)

\* line 223: end_idx, len(lines) + 1 when no later heading
SpringEnd(ls, y, start) ==
    FirstOf({i \in (start + 1)..Len(ls) :
                /\ MatchesTermHeading(ls[i])
                /\ ~ContainsTermKey(ls[i], "Spring", y)},
            Len(ls) + 1)

\* mutant: the first Spring heading of any year bounds the block
FallBoundaryAnySpring(ls, y) ==
    FirstOf({i \in 1..Len(ls) : MatchesSpringHeading(ls[i])}, Len(ls) + 1)

\* lines 228-234: boundary, len(lines) + 1 when no Spring heading
FallBoundary(ls, y) ==
    LET first == FirstOf({i \in 1..Len(ls) :
                             ContainsTermKey(ls[i], "Spring", y + 1)}, 0)
    IN  IF first # 0 THEN first
        ELSE FirstOf({i \in 1..Len(ls) : MatchesSpringHeading(ls[i])},
                     Len(ls) + 1)

TermInit ==
    /\ academic_lines \in AcademicPages
    /\ year = 2026
    /\ semester \in {"spring", "fall"}
    /\ term_block = <<>>
    /\ tpc = "call"
    /\ WeekIdle
    /\ ScanIdle
    /\ OthersIdle

\* line 221: raise RuntimeError("Could not find ... section")
TermSpringNotFound ==
    /\ tpc = "call"
    /\ semester = "spring"
    /\ SpringStart(TextLines(academic_lines), year) = 0
    /\ tpc' = "raised"
    /\ UNCHANGED <<academic_lines, year, semester, term_block>>
    /\ UNCHANGED notTermVars

\* line 224: return "\n".join(lines[start_idx:end_idx])
TermSpringBlock ==
    /\ tpc = "call"
    /\ semester = "spring"
    /\ LET ls == TextLines(academic_lines)
           start == SpringStart(ls, year)
       IN  /\ start # 0
           /\ term_block' = SubSeq(ls, start, SpringEnd(ls, year, start) - 1)
    /\ tpc' = "returned"
    /\ UNCHANGED <<academic_lines, year, semester>>
    /\ UNCHANGED notTermVars

\* line 235: return "\n".join(lines[:boundary])
TermFallBlock ==
    /\ tpc = "call"
    /\ semester # "spring"
    /\ LET ls == TextLines(academic_lines)
       IN  term_block' = SubSeq(ls, 1, FallBoundary(ls, year) - 1)
    /\ tpc' = "returned"
    /\ UNCHANGED <<academic_lines, year, semester>>
    /\ UNCHANGED notTermVars

TermNext == TermSpringNotFound \/ TermSpringBlock \/ TermFallBlock

SpecTerm == TermInit /\ [][TermNext]_vars

----------------------------------------------------------------------------
(* Properties of instructional_week_events *)

\* the Mondays the loop has already passed
WeeksDone == {m \in wk_start..(cur - 1) : weekday(m) = 0}

\* the instructional weekdays of the week of Monday m, stated from the
\* definition: Mon-Fri, within first..last day of classes, in no blackout
InstrSet(m) ==
    {d \in m..(m + 4) :
        /\ first_class <= d /\ d <= last_class
        /\ weekday(d) \in 0..4
        /\ \A i \in 1..Len(blackout_ranges) :
              d < blackout_ranges[i].start \/ d > blackout_ranges[i].end}

EventsOfWeek(m) == {i \in 1..Len(events) : monday_of_week(events[i].start) = m}

SetMin(S) == CHOOSE x \in S : \A y \in S : x <= y
SetMax(S) == CHOOSE x \in S : \A y \in S : x >= y

\* C1: the emitted week events are in chronological order and the i-th one
\* is titled "Week i" or "Week i (short)": numbering starts at 1, grows by
\* exactly 1 per emitted event, and a skipped week consumes no number.
C1_WeekNumbering ==
    /\ \A i \in 1..Len(events) :
          events[i].title \in {<<"Week", i>>, <<"Week", i, "(short)">>}
    /\ \A i \in 1..Len(events), j \in 1..Len(events) :
          i < j => events[i].end < events[j].start
    /\ week_num = Len(events) + 1

\* a finished run that skipped the middle week and numbered the third week 2
C1_Witness ==
    /\ wpc = "done"
    /\ Len(events) = 2
    /\ monday_of_week(events[2].start) = monday_of_week(events[1].start) + 14
    /\ events[2].title[2] = 2

\* C2: every Monday from the week of firstDay through the week of lastDay
\* gets exactly one event when its clamped Mon-Fri window holds an
\* instructional weekday and none otherwise; no other event exists; with no
\* blackout the count is the number of Mon-Fri windows meeting the term.
C2_OneEventPerInstructionalWeek ==
    /\ \A m \in WeeksDone :
          Cardinality(EventsOfWeek(m)) = IF InstrSet(m) # {} THEN 1 ELSE 0
    /\ \A i \in 1..Len(events) : monday_of_week(events[i].start) \in WeeksDone
    /\ (wpc = "done" /\ blackout_ranges = <<>>) =>
          Len(events) = Cardinality({m \in 0..(MaxDay + 7) :
              /\ weekday(m) = 0
              /\ \E d \in m..(m + 4) : first_class <= d /\ d <= last_class})
    /\ wpc = "done" => WeeksDone = {m \in wk_start..wk_end_boundary : weekday(m) = 0}

\* a finished run with a week fully covered by a blackout between two
\* emitted weeks
C2_Witness ==
    /\ wpc = "done"
    /\ Len(events) = 2
    /\ \E m \in WeeksDone :
          /\ EventsOfWeek(m) = {}
          /\ \E i \in 1..Len(blackout_ranges) :
                blackout_ranges[i].start <= m /\ m + 4 <= blackout_ranges[i].end
          /\ EventsOfWeek(m - 7) # {} /\ EventsOfWeek(m + 7) # {}

\* a finished run whose first day of classes is a weekend day, no blackout
C2_WitnessWeekend ==
    /\ wpc = "done"
    /\ blackout_ranges = <<>>
    /\ weekday(first_class) >= 5
    /\ Len(events) >= 1

\* C3: an event starts on the earliest and ends on the latest instructional
\* weekday of its calendar week (so start <= end within one Mon-Fri window)
\* and is titled "(short)" exactly when that week has fewer than 5
\* instructional weekdays.
C3_EventSpanAndShort ==
    \A i \in 1..Len(events) :
        LET m == monday_of_week(events[i].start)
            S == InstrSet(m)
        IN  /\ S # {}
            /\ events[i].start = SetMin(S)
            /\ events[i].end = SetMax(S)
            /\ events[i].start <= events[i].end
            /\ m <= events[i].start /\ events[i].end <= m + 4
            /\ (Len(events[i].title) = 3) <=> (Cardinality(S) < 5)
            /\ Len(events[i].title) = 3 => events[i].title[3] = "(short)"
            /\ Len(events[i].title) \in {2, 3}

\* a finished run with a full week, a week cut short by the term boundary
\* and a week cut short by a blackout inside the term
C3_Witness ==
    /\ wpc = "done"
    /\ \E i \in 1..Len(events) : Len(events[i].title) = 2
    /\ \E i \in 1..Len(events) :
          /\ Len(events[i].title) = 3
          /\ monday_of_week(events[i].start) + 4 > last_class
    /\ \E i \in 1..Len(events) :
          LET m == monday_of_week(events[i].start)
          IN  /\ Len(events[i].title) = 3
              /\ first_class <= m /\ m + 4 <= last_class
              /\ events[i].start > m

----------------------------------------------------------------------------
(* Properties of the deadline section scanner *)

IsFullLine(l) == Len(l) >= 1 /\ l[1] = "FULL"

IsHeaderLine(l) == MatchesDropPeriod(l) \/ MatchesWithdrawalPeriod(l)

HeadersBefore(i) == {j \in 1..(i - 1) : IsHeaderLine(lines[j])}

\* the section a line at position i is read in: that of the last header
\* line before it
SectionAt(i) ==
    LET H == HeadersBefore(i)
    IN  IF H = {} THEN "Neither"
        ELSE IF MatchesDropPeriod(lines[SetMax(H)]) THEN "InDrop"
        ELSE "InWithdraw"

ScannerState ==
    IF in_drop THEN "InDrop" ELSE IF in_withdraw THEN "InWithdraw" ELSE "Neither"

\* the lines the scanner has accounted for: all of them once it has stopped
LinesSettled == IF dpc = "scan" THEN idx - 1 ELSE Len(lines)

\* the first line among the first n that starts with FULL and is read in
\* the given section
FirstFullReadIn(section, n) ==
    LET C == {i \in 1..n : IsFullLine(lines[i]) /\ SectionAt(i) = section}
    IN  IF C = {} THEN NoLine ELSE lines[SetMin(C)]

\* the same, header lines left out
FirstFullNonHeaderReadIn(section, n) ==
    LET C == {i \in 1..n : /\ IsFullLine(lines[i])
                           /\ ~IsHeaderLine(lines[i])
                           /\ SectionAt(i) = section}
    IN  IF C = {} THEN NoLine ELSE lines[SetMin(C)]

\* C4 as stated: the line captured for a section is the first line in page
\* order that starts with FULL and is read in that section's state, also
\* when the scan stops early.
C4_FirstFullLineCaptured ==
    dpc \in {"scan", "scanned", "done"} =>
        /\ full_drop_line = FirstFullReadIn("InDrop", LinesSettled)
        /\ full_withdraw_line = FirstFullReadIn("InWithdraw", LinesSettled)

\* C4 amended: the line captured for a section is the first line in page
\* order that starts with FULL, is not itself a header line, and is read in
\* that section's state; lines of other cohorts are never captured, a
\* captured line is never replaced, and stopping early changes nothing.
C4_FirstNonHeaderFullLineCaptured ==
    dpc \in {"scan", "scanned", "done"} =>
        /\ full_drop_line = FirstFullNonHeaderReadIn("InDrop", LinesSettled)
        /\ full_withdraw_line = FirstFullNonHeaderReadIn("InWithdraw", LinesSettled)
        /\ full_drop_line # NoLine => full_drop_line[1] = "FULL"
        /\ full_withdraw_line # NoLine => full_withdraw_line[1] = "FULL"
        /\ dpc = "scan" => ScannerState = SectionAt(idx)

\* the scan stopped early on a FULL line of a section whose line was already
\* captured, with both sections captured
C4_Witness ==
    /\ dpc = "done"
    /\ idx <= Len(lines)
    /\ full_drop_line # NoLine /\ full_withdraw_line # NoLine
    /\ IsFullLine(lines[idx])
    /\ lines[idx] # full_drop_line /\ lines[idx] # full_withdraw_line

----------------------------------------------------------------------------
(* Properties of extract_end_date_from_full_line *)

\* the text of a captured line after its FULL token and the separators that
\* follow it
DateText(line) == LStripSet(Tail(line), {" ", "-", "ndash", ":"})

IsDash(t) == t \in {"-", "ndash"}

\* Month D, YYYY at position i of b (a space after the comma or none)
IsDateAt(b, i) ==
    /\ i + 4 <= Len(b)
    /\ b[i] \in MonthNames /\ b[i + 1] = " " /\ IsDay(b[i + 2]) /\ b[i + 3] = ","
    /\ \/ IsYear(b[i + 4])
       \/ i + 5 <= Len(b) /\ b[i + 4] = " " /\ IsYear(b[i + 5])

DateEnd(b, i) == IF IsYear(b[i + 4]) THEN i + 4 ELSE i + 5

DateAt(b, i) ==
    [year |-> IntOf(b[DateEnd(b, i)]), month |-> MonthNum(b[i]),
     day |-> IntOf(b[i + 2])]

\* the position after "Month D", optional spaces, a dash, optional spaces at the
\* start of b; 0 when b does not start so
AfterRangeHead(b) ==
    IF Len(b) >= 4 /\ b[1] \in MonthNames /\ b[2] = " " /\ IsDay(b[3])
    THEN LET h == IF b[4] = " " THEN 5 ELSE 4
         IN  IF h <= Len(b) /\ IsDash(b[h])
             THEN (IF h + 1 <= Len(b) /\ b[h + 1] = " " THEN h + 2 ELSE h + 1)
             ELSE 0
    ELSE 0

\* b is a bare Month D, YYYY
IsBareDate(b) == IsDateAt(b, 1) /\ DateEnd(b, 1) = Len(b)

\* b is Month D - Month D, YYYY
IsTwoMonthRange(b) ==
    LET p == AfterRangeHead(b)
    IN  p > 0 /\ IsDateAt(b, p) /\ DateEnd(b, p) = Len(b)

\* b is Month D-D, YYYY
IsOneMonthRange(b) ==
    LET p == AfterRangeHead(b)
    IN  /\ p > 0 /\ p + 2 <= Len(b)
        /\ IsDay(b[p]) /\ b[p + 1] = ","
        /\ \/ p + 2 = Len(b) /\ IsYear(b[p + 2])
           \/ p + 3 = Len(b) /\ b[p + 2] = " " /\ IsYear(b[p + 3])

DatePositions(b) == {i \in 1..Len(b) : IsDateAt(b, i)}

\* the end date the four sub-grammars give, in their order
ExpectedEndDate(line) ==
    IF line = NoLine THEN NoDate
    ELSE LET b == DateText(line)
             p == AfterRangeHead(b)
         IN  IF IsBareDate(b) THEN DateAt(b, 1)
             ELSE IF IsTwoMonthRange(b) THEN DateAt(b, p)
             ELSE IF IsOneMonthRange(b)
                  THEN [year |-> IntOf(b[Len(b)]), month |-> MonthNum(b[1]),
                        day |-> IntOf(b[p])]
             ELSE IF DatePositions(b) # {} THEN DateAt(b, SetMax(DatePositions(b)))
             ELSE NoDate

\* C5: the end date of a captured FULL line is that of the first matching
\* sub-grammar among bare date, two-month range (second month, second day),
\* one-month range (month, second day), last Month D, YYYY occurrence; no
\* occurrence or no captured line gives absence.  The two lines of the
\* specification give 2026-02-02 and 2026-03-29.
C5_EndDateExtraction ==
    dpc = "done" =>
        /\ last_drop = ExpectedEndDate(full_drop_line)
        /\ last_withdraw = ExpectedEndDate(full_withdraw_line)
        /\ full_drop_line = ExampleTwoMonths =>
              last_drop = [year |-> 2026, month |-> 2, day |-> 2]
        /\ full_drop_line = ExampleOneMonth =>
              last_drop = [year |-> 2026, month |-> 3, day |-> 29]
        /\ full_drop_line = NoLine => last_drop = NoDate

\* the drop line is a two-month range whose months differ and the withdrawal
\* line falls back to the last of two different dates
C5_Witness ==
    /\ dpc = "done"
    /\ full_drop_line # NoLine
    /\ IsTwoMonthRange(DateText(full_drop_line))
    /\ DateText(full_drop_line)[1] # "February"
    /\ last_drop = [year |-> 2026, month |-> 2, day |-> 2]
    /\ full_withdraw_line = ExampleTwoDates
    /\ Cardinality(DatePositions(DateText(full_withdraw_line))) = 2
    /\ last_withdraw = [year |-> 2026, month |-> 2, day |-> 2]

\* further cases of C5 that are reached: a bare date, a one-month range, a
\* text with no date in it
C5_WitnessBareDate ==
    dpc = "done" /\ full_drop_line # NoLine /\ IsBareDate(DateText(full_drop_line))

C5_WitnessOneMonth ==
    /\ dpc = "done" /\ full_drop_line # NoLine
    /\ full_drop_line # ExampleOneMonth
    /\ IsOneMonthRange(DateText(full_drop_line))

C5_WitnessAbsent ==
    /\ dpc = "done" /\ full_drop_line # NoLine
    /\ Len(DateText(full_drop_line)) > 0
    /\ last_drop = NoDate

----------------------------------------------------------------------------
(* Properties of extract_term_block_text *)

\* the positions of the page's lines that hold "Spring 2026" as a substring
SpringKeyLines ==
    {i \in 1..Len(academic_lines) :
        \E k \in 1..(Len(academic_lines[i]) - 2) :
            /\ academic_lines[i][k] \in {"Spring", "PreSpring"}
            /\ academic_lines[i][k + 1] = " "
            /\ academic_lines[i][k + 2] \in {"2026", "20261"}}

\* C6: for spring the section-not-found error is raised exactly when no line
\* of the page contains "Spring {year}"; a returned block is never empty and
\* starts with the first page line containing "Spring {year}".
C6_SpringSectionNotFound ==
    (semester = "spring" /\ tpc # "call") =>
        /\ tpc \in {"raised", "returned"}
        /\ tpc = "raised" <=> SpringKeyLines = {}
        /\ tpc = "returned" =>
              /\ term_block # <<>>
              /\ term_block[1] = academic_lines[SetMin(SpringKeyLines)]
              /\ \A i \in 1..Len(term_block) : term_block[i] # <<>>

\* a block returned from a page that has the key on two lines, the first of
\* them not the page's first line
C6_Witness ==
    /\ semester = "spring"
    /\ tpc = "returned"
    /\ Cardinality(SpringKeyLines) >= 2
    /\ 1 \notin SpringKeyLines

\* the error raised for a page that has lines but none with the key
C6_WitnessRaised ==
    semester = "spring" /\ tpc = "raised" /\ Len(academic_lines) >= 2

\* the positions of the page's lines that hold "Spring 2027", the key of the
\* spring after fall 2026, as a substring
NextSpringKeyLines ==
    {i \in 1..Len(academic_lines) :
        \E k \in 1..(Len(academic_lines[i]) - 2) :
            /\ academic_lines[i][k] \in {"Spring", "PreSpring"}
            /\ academic_lines[i][k + 1] = " "
            /\ academic_lines[i][k + 2] = "2027"}

\* the positions of the lines that hold the word Spring, white space and a
\* number of exactly four digits
AnySpringLines ==
    {i \in 1..Len(academic_lines) :
        \E k \in 1..(Len(academic_lines[i]) - 2) :
            /\ academic_lines[i][k] = "Spring"
            /\ academic_lines[i][k + 1] = " "
            /\ academic_lines[i][k + 2] \in {"2026", "2027"}}

\* the boundary of the three-step cascade, as a position on the page
CascadeBoundary ==
    IF NextSpringKeyLines # {} THEN SetMin(NextSpringKeyLines)
    ELSE IF AnySpringLines # {} THEN SetMin(AnySpringLines)
    ELSE Len(academic_lines) + 1

NotBlank(l) == l # <<" ">>

\* C12: for fall extract_term_block_text never raises and returns exactly
\* the (non-blank) page lines before the boundary of a three-step cascade:
\* the first line containing "Spring {year+1}" if there is one, even after a
\* line naming another Spring year; else the first line matching Spring and
\* a 4-digit year; else the end of the page. The boundary line is excluded.
C12_FallBlockCascade ==
    (semester = "fall" /\ tpc # "call") =>
        /\ tpc = "returned"
        /\ term_block =
              SelectSeq(SubSeq(academic_lines, 1, CascadeBoundary - 1),
                        NotBlank)

\* a fall block returned from a page that names Spring 2026 on a line before
\* the line of Spring 2027: the block runs past the earlier Spring line
C12_Witness ==
    /\ semester = "fall"
    /\ tpc = "returned"
    /\ NextSpringKeyLines # {}
    /\ \E i \in AnySpringLines : i < SetMin(NextSpringKeyLines)
    /\ \E i \in 1..Len(term_block) : term_block[i] = <<"Spring", " ", "2026">>

\* the second step: no line holds the key, a Spring heading bounds the block
C12_WitnessFallback ==
    /\ semester = "fall"
    /\ tpc = "returned"
    /\ NextSpringKeyLines = {}
    /\ AnySpringLines # {}
    /\ term_block # <<>>

\* the third step: no Spring heading at all, the whole page is the block
C12_WitnessWholePage ==
    /\ semester = "fall"
    /\ tpc = "returned"
    /\ AnySpringLines = {}
    /\ Len(term_block) >= 2


----------------------------------------------------------------------------
(* The calendar sink and upsert_event                                       *)

\* line 59
TARGET_CALENDAR_ID == "61147m13qjm5liln3f318l3a08@group.calendar.google.com"

\* line 405: the page size asked of events.list, which is called once
MaxResults == 50

\* the number of events other programs have put on the calendar
MaxOthers == 50

\* the number of upsert_event calls made on one calendar
MaxUpserts == 2

\* lines 91-99: Google's all-day events end on an exclusive date
to_google_allday(start_d, end_inclusive) ==
    [start |-> start_d, end |-> end_inclusive + 1]

\* line 395: the key is made of the calendar id, the title and the start
\* date; replace(" ", "_") joins the words of the title with underscores
\* where the title joins them with spaces
ical_uid(calendar_id, summary, start_d) ==
    <<"uofm", calendar_id, summary, start_d, "@local">>

\* line 398
time_min(start_d) == start_d - 1

\* line 399
time_max(end_inclusive) == end_inclusive + 2

\* events.list with timeMin and timeMax: the events that end after timeMin
\* and start before timeMax
InWindow(e, tmin, tmax) == e.end > tmin /\ e.start < tmax

\* lines 400-406: the positions of the events the one list request returns,
\* the first maxResults of the window in the server's order
ListedEvents(cal, tmin, tmax) ==
    LET W == {i \in 1..Len(cal) : InWindow(cal[i], tmin, tmax)}
    IN  {i \in W : Cardinality({j \in W : j < i}) < MaxResults}

\* line 408: the position of the first listed event with the key, 0 for None
existing(cal, uid, start_d, end_inclusive) ==
    FirstOf({i \in ListedEvents(cal, time_min(start_d), time_max(end_inclusive)) :
                cal[i].iCalUID = uid}, 0)

\* lines 410-418, the fields the sink compares
body(uid, summary, start_d, end_inclusive) ==
    [iCalUID |-> uid, summary |-> summary,
     start |-> to_google_allday(start_d, end_inclusive).start,
     end |-> to_google_allday(start_d, end_inclusive).end]

\* an event of another program, on the days the model's events are on
OtherEvent == [iCalUID |-> <<"other">>, summary |-> <<"Office", "hours">>,
               start |-> 10, end |-> 11]

\* lines 420-422: the listed event with the key is updated
UpsertUpdate(calendar_id, summary, start_d, end_inclusive) ==
    LET uid == ical_uid(calendar_id, summary, start_d)
        ex == existing(calendar, uid, start_d, end_inclusive)
    IN  /\ ex # 0
        /\ calendar' = [calendar EXCEPT ![ex] = body(uid, summary, start_d, end_inclusive)]
        /\ sink_calls' = sink_calls + 2

\* lines 423-425: no listed event has the key, an event is inserted. The
\* server puts it at a place of its choosing in the order it lists events
\* in (events.list is called without orderBy): one of places
UpsertInsert(calendar_id, summary, start_d, end_inclusive, places) ==
    LET uid == ical_uid(calendar_id, summary, start_d)
        ex == existing(calendar, uid, start_d, end_inclusive)
    IN  /\ ex = 0
        /\ \E pos \in places :
               calendar' = SubSeq(calendar, 1, pos - 1)
                           \o <<body(uid, summary, start_d, end_inclusive)>>
                           \o SubSeq(calendar, pos, Len(calendar))
        /\ sink_calls' = sink_calls + 2

\* line 424 when the calendar holds the key already: the server may refuse
\* the insert, and execute() raises
UpsertInsertRefused(calendar_id, summary, start_d, end_inclusive) ==
    LET uid == ical_uid(calendar_id, summary, start_d)
        ex == existing(calendar, uid, start_d, end_inclusive)
    IN  /\ ex = 0
        /\ \E i \in 1..Len(calendar) : calendar[i].iCalUID = uid
        /\ calendar' = calendar
        /\ sink_calls' = sink_calls + 2

\* the titles and days upsert_event is called with
UpsertCalls ==
    [summary : {<<"Study", "Day">>, <<"Exams">>}, start : {10, 30}, length : 0..1]

notUpsertVars ==
    <<weekVars, scanVars, termVars, rpc, dry_run, term_text, first_day,
      last_day, study_day, exams_rng, breaks, single_holidays, dd_fetches,
      dd_html, dd_url_used, breaks_in_term, holidays_in_term,
      events_to_create, printed, next_event>>

UpsertInit ==
    /\ calendar \in {[i \in 1..n |-> OtherEvent] : n \in 0..MaxOthers}
    /\ sink_calls = 0
    /\ upserts = 0
    /\ WeekIdle
    /\ ScanIdle
    /\ TermIdle
    /\ RunIdle

UpsertCallUpdates ==
    /\ upserts < MaxUpserts
    /\ error = ""
    /\ \E c \in UpsertCalls :
           UpsertUpdate(TARGET_CALENDAR_ID, c.summary, c.start, c.start + c.length)
    /\ upserts' = upserts + 1
    /\ UNCHANGED error
    /\ UNCHANGED notUpsertVars

UpsertCallInserts ==
    /\ upserts < MaxUpserts
    /\ error = ""
    /\ \E c \in UpsertCalls :
           UpsertInsert(TARGET_CALENDAR_ID, c.summary, c.start, c.start + c.length,
                        {1, Len(calendar) + 1})
    /\ upserts' = upserts + 1
    /\ UNCHANGED error
    /\ UNCHANGED notUpsertVars

UpsertCallRefused ==
    /\ upserts < MaxUpserts
    /\ error = ""
    /\ \E c \in UpsertCalls :
           UpsertInsertRefused(TARGET_CALENDAR_ID, c.summary, c.start, c.start + c.length)
    /\ upserts' = upserts + 1
    /\ error' = "SinkRefused"
    /\ UNCHANGED notUpsertVars

UpsertNext == UpsertCallUpdates \/ UpsertCallInserts \/ UpsertCallRefused

SpecUpsert == UpsertInit /\ [][UpsertNext]_vars

----------------------------------------------------------------------------
(* Labelled dates of the academic page: find_bullet_date, find_bullet_range, *)
(* extract_subsection                                                       *)

RECURSIVE Spaced(_)
\* the text of a label: its words, one space between two
Spaced(w) == IF Len(w) <= 1 THEN w ELSE <<w[1], " ">> \o Spaced(Tail(w))

RECURSIVE JoinLines(_)
\* "\n".join(lines)
JoinLines(ls) ==
    IF ls = <<>> THEN <<>>
    ELSE IF Len(ls) = 1 THEN ls[1]
    ELSE ls[1] \o <<"<nl>">> \o JoinLines(Tail(ls))

RECURSIVE SkipWs(_, _)
\* \s* and \s+: the first position from i on that holds no whitespace, a
\* line break included
SkipWs(r, i) == IF Tok(r, i) \in {" ", "<nl>"} THEN SkipWs(r, i + 1) ELSE i

\* date.toordinal(), counted from Monday 29 December 2025 (day 0)
DayNumber(dt) ==
    365 * (dt.year - 2026)
    + (CASE dt.month = 1 -> 0 [] dt.month = 2 -> 31 [] dt.month = 3 -> 59)
    + dt.day + 2

\* re.escape(label) matched at position i of the text
LabelAt(t, i, label) ==
    LET L == Spaced(label)
    IN  i + Len(L) - 1 <= Len(t) /\ SubSeq(t, i, i + Len(L) - 1) = L

\* line 245: label \s*:\s* ([A-Za-z]+\s+\d{1,2},\s+\d{4}) matched at i
MatchBulletDate(t, i, label) ==
    LET c == SkipWs(t, i + Len(Spaced(label)))
        m == SkipWs(t, c + 1)
        d == SkipWs(t, m + 1)
        y == SkipWs(t, d + 2)
    IN  IF /\ LabelAt(t, i, label)
           /\ Tok(t, c) = ":"
           /\ IsWord(Tok(t, m))
           /\ d > m + 1
           /\ IsDay(Tok(t, d))
           /\ Tok(t, d + 1) = ","
           /\ y > d + 2
           /\ IsYear(Tok(t, y))
        THEN [ok |-> TRUE, next |-> y + 1, mon |-> t[m], day |-> t[d], year |-> t[y]]
        ELSE NoMatch

\* lines 238-249: the date of the leftmost match, NoDay for None
find_bullet_date(term, label) ==
    LET t == JoinLines(term)
        S == {i \in 1..Len(t) : MatchBulletDate(t, i, label).ok}
    IN  IF S = {} THEN NoDay
        ELSE DayNumber(DateOf(MatchBulletDate(t, FirstOf(S, 0), label)))

\* line 259: label \s*:\s* ([A-Za-z]+\s+\d{1,2}\s*[-\u2013]\s*\d{1,2},\s*\d{4})
\* matched at i
MatchBulletRange(t, i, label) ==
    LET c == SkipWs(t, i + Len(Spaced(label)))
        m == SkipWs(t, c + 1)
        d1 == SkipWs(t, m + 1)
        h == SkipWs(t, d1 + 1)
        d2 == SkipWs(t, h + 1)
        y == SkipWs(t, d2 + 2)
    IN  IF /\ LabelAt(t, i, label)
           /\ Tok(t, c) = ":"
           /\ IsWord(Tok(t, m))
           /\ d1 > m + 1
           /\ IsDay(Tok(t, d1))
           /\ Tok(t, h) \in {"-", "ndash"}
           /\ IsDay(Tok(t, d2))
           /\ Tok(t, d2 + 1) = ","
           /\ IsYear(Tok(t, y))
        THEN [ok |-> TRUE, mon |-> t[m], d1 |-> t[d1], d2 |-> t[d2], year |-> t[y]]
        ELSE [ok |-> FALSE, mon |-> "", d1 |-> "", d2 |-> "", year |-> ""]

\* lines 125-143 on the text find_bullet_range hands over: the first
\* pattern matches it, both days are read in the one month
parse_range(m) ==
    DateRange(DayNumber(MakeDate(m.mon, m.d1, m.year)),
              DayNumber(MakeDate(m.mon, m.d2, m.year)))

\* lines 252-263: the range of the leftmost match, NoRange for None
find_bullet_range(term, label) ==
    LET t == JoinLines(term)
        S == {i \in 1..Len(t) : MatchBulletRange(t, i, label).ok}
    IN  IF S = {} THEN NoRange
        ELSE parse_range(MatchBulletRange(t, FirstOf(S, 0), label))

\* lines 497-505
subsection_headers ==
    { Spaced(<<"All", "Parts", "of", "Term">>),
      Spaced(<<"Winter", "Intersession">>),
      Spaced(<<"Full", "Part", "of", "Term">>),
      Spaced(<<"1st", "Half", "Part", "of", "Term">>),
      Spaced(<<"2nd", "Half", "Part", "of", "Term">>),
      Spaced(<<"Pre", "Summer", "Part", "of", "Term">>),
      Spaced(<<"Extended", "Summer", "Part", "of", "Term">>) }

\* mutant: the subsection runs to the end of the block
extract_subsection_to_end(block, header) ==
    LET ls == SelectSeq([i \in 1..Len(block) |-> Strip(block[i])], NonEmpty)
        start == FirstOf({i \in 1..Len(ls) : ls[i] = header}, 0)
    IN  IF start = 0 THEN block ELSE SubSeq(ls, start, Len(ls))

\* lines 487-518: the lines from the first one equal to header up to the
\* next subsection header; the block itself when no line equals header
extract_subsection(block, header) ==
    LET ls == SelectSeq([i \in 1..Len(block) |-> Strip(block[i])], NonEmpty)
        start == FirstOf({i \in 1..Len(ls) : ls[i] = header}, 0)
        end == FirstOf({i \in (start + 1)..Len(ls) : ls[i] \in subsection_headers},
                       Len(ls) + 1)
    IN  IF start = 0 THEN block ELSE SubSeq(ls, start, end - 1)

----------------------------------------------------------------------------
(* The run: main and build_term_events                                      *)

\* the number of labelled lines an academic page may lack
MaxMissing == 2

FirstDayLabel == <<"First", "Day", "of", "Classes">>
LastDayLabel == <<"Last", "Day", "of", "Classes">>
StudyDayLabel == <<"Study", "Day">>
ExamsLabel == <<"Exams">>

\* line 547
break_like_labels ==
    << <<"Spring", "Break">>, <<"Fall", "Break">>, <<"Thanksgiving", "Holidays">> >>

\* line 559
single_holiday_labels ==
    << <<"Labor", "Day">>, <<"M.", "L.", "King,", "Jr.", "Holiday">> >>

\* lines 669 and 675
DropSummary == <<"Last", "day", "to", "drop", "with", "no", "grade", "assigned">>
WithdrawSummary == <<"Last", "day", "to", "drop", "with", "a", "W", "grade", "assigned">>

\* line 535
FullPartOfTerm == Spaced(<<"Full", "Part", "of", "Term">>)

DateLine(mon, d, y) == <<mon, " ", d, ",", " ", y>>

RangeLine(mon, d1, d2, y) == <<mon, " ", d1, "-", d2, ",", " ", y>>

Bullet(label, text) == Spaced(label) \o <<":", " ">> \o text

\* the labelled lines of the Full Part of Term of an academic page: classes
\* from Tuesday 20 January to Monday 2 February 2026
BulletLines ==
    << Bullet(FirstDayLabel, DateLine("January", "20", "2026")),
       Bullet(LastDayLabel, DateLine("February", "2", "2026")),
       Bullet(StudyDayLabel, DateLine("February", "16", "2026")),
       Bullet(ExamsLabel, RangeLine("February", "16", "20", "2026")),
       Bullet(break_like_labels[1], RangeLine("January", "28", "29", "2026")),
       Bullet(break_like_labels[2], RangeLine("March", "2", "16", "2026")),
       Bullet(break_like_labels[3], RangeLine("February", "2", "16", "2026")),
       Bullet(single_holiday_labels[1], DateLine("March", "2", "2026")),
       Bullet(single_holiday_labels[2], DateLine("January", "20", "2026")) >>

\* the pages the academic fetch may return: with or without the
\* "Spring 2026" heading, the Full Part of Term lacking up to MaxMissing of
\* its labelled lines, followed by another part of term
AcademicPage(heading, S) ==
    (IF heading THEN << <<"Spring", " ", "2026">> >> ELSE <<>>)
    \o <<FullPartOfTerm>>
    \o SelectSeq(BulletLines, LAMBDA l : l \in S)
    \o << Spaced(<<"2nd", "Half", "Part", "of", "Term">>),
          Bullet(FirstDayLabel, DateLine("March", "16", "2026")),
          Bullet(StudyDayLabel, DateLine("March", "29", "2026")) >>

RunAcademicPages ==
    LET All == {BulletLines[i] : i \in 1..Len(BulletLines)}
    IN  {AcademicPage(h, S) :
            h \in BOOLEAN,
            S \in {T \in SUBSET All : Cardinality(All \ T) <= MaxMissing}}

\* the pages a deadlines fetch may return: an empty body, a page with both
\* deadlines, with the drop deadline only, with neither
RunDeadlinePages ==
    { <<>>,
      << <<"Drop", " ", "Period">>,
         <<"FULL", " ", "-", " ", "January", " ", "20", ",", " ", "2026">>,
         <<"*", " ", "withdrawal", " ", "period">>,
         <<"-", " ", "FULL", " ", "-", " ", "February", " ", "2", ",", " ", "2026">>,
         <<"1ST", " ", "-", " ", "January", " ", "20", ",", " ", "2026">> >>,
      << <<"Drop", " ", "Period">>,
         <<"FULL", " ", "-", " ", "January", " ", "20", ",", " ", "2026">> >>,
      << <<"1ST", " ", "-", " ", "January", " ", "20", ",", " ", "2026">> >> }

\* lines 176-197
candidate_dates_deadlines_urls(y, sem) ==
    << <<sem, y % 100, "-dates.php">>,
       <<y % 100, IF sem = "fall" THEN "f" ELSE "s", "-dates.php">> >>

\* the calendar a run of an earlier day has left
EarlierCalendar ==
    << body(ical_uid(TARGET_CALENDAR_ID, FirstDayLabel, 22), FirstDayLabel, 22, 22) >>

RunInit ==
    /\ rpc = "start"
    /\ dry_run \in BOOLEAN
    /\ year = 2026
    /\ semester \in {"spring", "fall"}
    /\ calendar \in {<<>>, EarlierCalendar}
    /\ sink_calls = 0 /\ upserts = 0
    /\ academic_lines = <<>> /\ term_block = <<>> /\ tpc = "idle"
    /\ error = "" /\ term_text = <<>>
    /\ first_day = NoDay /\ last_day = NoDay /\ study_day = NoDay
    /\ exams_rng = NoRange /\ breaks = <<>> /\ single_holidays = <<>>
    /\ dd_fetches = <<>> /\ dd_html = <<>> /\ dd_url_used = <<>>
    /\ breaks_in_term = <<>> /\ holidays_in_term = <<>>
    /\ events_to_create = <<>> /\ printed = {} /\ next_event = 0
    /\ WeekIdle
    /\ ScanIdle

\* line 533: fetch_html raises, the exception leaves main
RunFetchAcademicFails ==
    /\ rpc = "start"
    /\ rpc' = "failed"
    /\ error' = "FetchFailed"
    /\ UNCHANGED <<weekVars, scanVars, termVars, sinkVars, upserts, dry_run,
                   term_text, first_day, last_day, study_day, exams_rng,
                   breaks, single_holidays, dd_fetches, dd_html, dd_url_used,
                   breaks_in_term, holidays_in_term, events_to_create,
                   printed, next_event>>

\* lines 533-534: the page is fetched and extract_term_block_text is called
RunFetchAcademic ==
    /\ rpc = "start"
    /\ \E page \in RunAcademicPages : academic_lines' = page
    /\ tpc' = "call"
    /\ rpc' = "segment"
    /\ UNCHANGED <<weekVars, scanVars, year, semester, term_block, sinkVars,
                   upserts, dry_run, error, term_text, first_day, last_day,
                   study_day, exams_rng, breaks, single_holidays, dd_fetches,
                   dd_html, dd_url_used, breaks_in_term, holidays_in_term,
                   events_to_create, printed, next_event>>

\* line 534: the error of extract_term_block_text leaves main
RunSectionNotFound ==
    /\ rpc = "segment"
    /\ tpc = "raised"
    /\ rpc' = "failed"
    /\ error' = "SectionNotFound"
    /\ UNCHANGED <<weekVars, scanVars, termVars, sinkVars, upserts, dry_run,
                   term_text, first_day, last_day, study_day, exams_rng,
                   breaks, single_holidays, dd_fetches, dd_html, dd_url_used,
                   breaks_in_term, holidays_in_term, events_to_create,
                   printed, next_event>>

\* lines 535-544: the subsection, the key dates, the first/last day check
RunExtractKeyDates ==
    /\ rpc = "segment"
    /\ tpc = "returned"
    /\ LET t == extract_subsection(term_block, FullPartOfTerm)
           first == find_bullet_date(t, FirstDayLabel)
           last == find_bullet_date(t, LastDayLabel)
       IN  /\ term_text' = t
           /\ first_day' = first
           /\ last_day' = last
           /\ study_day' = find_bullet_date(t, StudyDayLabel)
           /\ exams_rng' = find_bullet_range(t, ExamsLabel)
           /\ IF first = NoDay \/ last = NoDay
              THEN rpc' = "failed" /\ error' = "FirstLastMissing"
              ELSE rpc' = "breaks" /\ error' = error
    /\ UNCHANGED <<weekVars, scanVars, termVars, sinkVars, upserts, dry_run,
                   breaks, single_holidays, dd_fetches, dd_html, dd_url_used,
                   breaks_in_term, holidays_in_term, events_to_create,
                   printed, next_event>>

\* lines 558-562: the holidays the text carries a date for, in label order
single_holidays_found(term) ==
    LET Hit(lab) == find_bullet_date(term, lab) # NoDay
        hits == SelectSeq(single_holiday_labels, Hit)
    IN  [i \in 1..Len(hits) |-> <<hits[i], find_bullet_date(term, hits[i])>>]

\* lines 565-569: the breaks the text carries a range for, in label order
breaks_found(term) ==
    LET Hit(lab) == find_bullet_range(term, lab) # NoRange
        hits == SelectSeq(break_like_labels, Hit)
    IN  [i \in 1..Len(hits) |-> <<hits[i], find_bullet_range(term, hits[i])>>]

\* lines 546-577
RunExtractBreaks ==
    /\ rpc = "breaks"
    /\ single_holidays' = single_holidays_found(term_text)
    /\ breaks' = breaks_found(term_text)
    /\ dd_html' = <<>>
    /\ dd_url_used' = <<>>
    /\ rpc' = "fetch"
    /\ UNCHANGED <<weekVars, scanVars, termVars, sinkVars, upserts, dry_run,
                   error, term_text, first_day, last_day, study_day,
                   exams_rng, dd_fetches, breaks_in_term, holidays_in_term,
                   events_to_create, printed, next_event>>

\* lines 578-584: the fetch of the next candidate URL raises; the loop goes
\* on to the next URL, and ends after the last one
RunFetchDeadlinesFails ==
    /\ rpc = "fetch"
    /\ LET urls == candidate_dates_deadlines_urls(year, semester)
           u == urls[Len(dd_fetches) + 1]
       IN  /\ dd_fetches' = Append(dd_fetches, [url |-> u, ok |-> FALSE, page |-> <<>>])
           /\ rpc' = IF Len(dd_fetches) + 1 = Len(urls) THEN "fetched" ELSE "fetch"
    /\ UNCHANGED <<weekVars, scanVars, termVars, sinkVars, upserts, dry_run,
                   error, term_text, first_day, last_day, study_day,
                   exams_rng, breaks, single_holidays, dd_html, dd_url_used,
                   breaks_in_term, holidays_in_term, events_to_create,
                   printed, next_event>>

\* lines 578-582: the fetch of the next candidate URL returns a page; break
RunFetchDeadlines ==
    /\ rpc = "fetch"
    /\ LET urls == candidate_dates_deadlines_urls(year, semester)
           u == urls[Len(dd_fetches) + 1]
       IN  \E page \in RunDeadlinePages :
               /\ dd_html' = page
               /\ dd_url_used' = u
               /\ dd_fetches' = Append(dd_fetches, [url |-> u, ok |-> TRUE, page |-> page])
    /\ rpc' = "fetched"
    /\ UNCHANGED <<weekVars, scanVars, termVars, sinkVars, upserts, dry_run,
                   error, term_text, first_day, last_day, study_day,
                   exams_rng, breaks, single_holidays, breaks_in_term,
                   holidays_in_term, events_to_create, printed, next_event>>

\* lines 585-589: if not dd_html: raise RuntimeError("Could not fetch ...")
RunNoDeadlinesPage ==
    /\ rpc = "fetched"
    /\ dd_html = <<>>
    /\ rpc' = "failed"
    /\ error' = "NoDeadlinesPage"
    /\ UNCHANGED <<weekVars, scanVars, termVars, sinkVars, upserts, dry_run,
                   term_text, first_day, last_day, study_day, exams_rng,
                   breaks, single_holidays, dd_fetches, dd_html, dd_url_used,
                   breaks_in_term, holidays_in_term, events_to_create,
                   printed, next_event>>

\* line 591: parse_deadlines_drop_withdraw(dd_html) is called
RunParseDeadlines ==
    /\ rpc = "fetched"
    /\ dd_html # <<>>
    /\ raw_lines' = dd_html
    /\ idx' = 1
    /\ in_drop' = FALSE
    /\ in_withdraw' = FALSE
    /\ full_drop_line' = NoLine
    /\ full_withdraw_line' = NoLine
    /\ dpc' = "scan"
    /\ rpc' = "parse"
    /\ UNCHANGED <<weekVars, last_drop, last_withdraw, termVars, sinkVars,
                   upserts, dry_run, error, term_text, first_day, last_day,
                   study_day, exams_rng, breaks, single_holidays, dd_fetches,
                   dd_html, dd_url_used, breaks_in_term, holidays_in_term,
                   events_to_create, printed, next_event>>

\* lines 596-599: the holidays inside the term, each as a one-day range
holidays_within(hs, term_range) ==
    LET In(h) == Contains(term_range, h[2])
        kept == SelectSeq(hs, In)
    IN  [i \in 1..Len(kept) |-> <<kept[i][1], DateRange(kept[i][2], kept[i][2])>>]

\* lines 602-605: the breaks that intersect the term, unclamped
breaks_within(bs, term_range) ==
    LET In(b) == Intersects(b[2], term_range)
    IN  SelectSeq(bs, In)

\* lines 608-609: the breaks clamped to the term, then the holidays
blackouts_of(bs, hs, first, last) ==
    [i \in 1..Len(bs) |-> Clamp(bs[i][2], first, last)]
    \o [i \in 1..Len(hs) |-> hs[i][2]]

\* lines 594-611: the term's holidays and breaks, the blackout ranges, and
\* the call of instructional_week_events
RunCallWeeks ==
    /\ rpc = "parse"
    /\ dpc = "done"
    /\ LET term_range == DateRange(first_day, last_day)
           hs == holidays_within(single_holidays, term_range)
           bs == breaks_within(breaks, term_range)
       IN  /\ holidays_in_term' = hs
           /\ breaks_in_term' = bs
           /\ blackout_ranges' = blackouts_of(bs, hs, first_day, last_day)
    /\ first_class' = first_day
    /\ last_class' = last_day
    /\ cur' = monday_of_week(first_day)
    /\ week_num' = 1
    /\ events' = <<>>
    /\ wpc' = "loop"
    /\ rpc' = "weeks"
    /\ UNCHANGED <<scanVars, termVars, sinkVars, upserts, dry_run, error,
                   term_text, first_day, last_day, study_day, exams_rng,
                   breaks, single_holidays, dd_fetches, dd_html, dd_url_used,
                   events_to_create, printed, next_event>>

\* a fact of the list: line 645
Fact(summary, start_d, end_d) == [summary |-> summary, start |-> start_d, end |-> end_d]

\* DayNumber of an end date the scanner returns, NoDay for None
DeadlineDay(dt) == IF dt = NoDate THEN NoDay ELSE DayNumber(dt)

\* lines 645-681: the fact list, in its fixed order
FactList ==
    << Fact(FirstDayLabel, first_day, first_day),
       Fact(LastDayLabel, last_day, last_day) >>
    \o (IF study_day # NoDay THEN <<Fact(StudyDayLabel, study_day, study_day)>> ELSE <<>>)
    \o (IF exams_rng # NoRange
        THEN <<Fact(ExamsLabel, exams_rng.start, exams_rng.end)>> ELSE <<>>)
    \o [i \in 1..Len(breaks_in_term) |->
            Fact(breaks_in_term[i][1], breaks_in_term[i][2].start, breaks_in_term[i][2].end)]
    \o [i \in 1..Len(holidays_in_term) |->
            Fact(holidays_in_term[i][1], holidays_in_term[i][2].start,
                 holidays_in_term[i][2].end)]
    \o (IF last_drop # NoDate
        THEN <<Fact(DropSummary, DeadlineDay(last_drop), DeadlineDay(last_drop))>>
        ELSE <<>>)
    \o (IF last_withdraw # NoDate
        THEN <<Fact(WithdrawSummary, DeadlineDay(last_withdraw), DeadlineDay(last_withdraw))>>
        ELSE <<>>)
    \o [i \in 1..Len(events) |-> Fact(events[i].title, events[i].start, events[i].end)]

\* lines 671 and 677: the warnings printed
WarnDrop == <<"Warning:", "last", "drop", "deadline">>

WarnWithdraw == <<"Warning:", "last", "W", "withdrawal", "deadline">>

Warnings ==
    (IF last_drop = NoDate THEN {WarnDrop} ELSE {})
    \cup (IF last_withdraw = NoDate THEN {WarnWithdraw} ELSE {})

\* lines 638-681: build_term_events has returned; main builds the fact list
RunBuildFactList ==
    /\ rpc = "weeks"
    /\ wpc = "done"
    /\ events_to_create' = FactList
    /\ printed' = Warnings
    /\ rpc' = "output"
    /\ UNCHANGED <<weekVars, scanVars, termVars, sinkVars, upserts, dry_run,
                   error, term_text, first_day, last_day, study_day,
                   exams_rng, breaks, single_holidays, dd_fetches, dd_html,
                   dd_url_used, breaks_in_term, holidays_in_term, next_event>>

\* mutant: the dry run goes on to the write loop
RunDryRunWrites ==
    /\ rpc = "output"
    /\ dry_run
    /\ next_event' = 1
    /\ rpc' = "write"
    /\ UNCHANGED <<weekVars, scanVars, termVars, sinkVars, upserts, dry_run,
                   error, term_text, first_day, last_day, study_day,
                   exams_rng, breaks, single_holidays, dd_fetches, dd_html,
                   dd_url_used, breaks_in_term, holidays_in_term,
                   events_to_create, printed>>

\* lines 684-687: the dry run prints the fact list and returns
RunDryRun ==
    /\ rpc = "output"
    /\ dry_run
    /\ rpc' = "done"
    /\ UNCHANGED <<weekVars, scanVars, termVars, sinkVars, upserts, dry_run,
                   error, term_text, first_day, last_day, study_day,
                   exams_rng, breaks, single_holidays, dd_fetches, dd_html,
                   dd_url_used, breaks_in_term, holidays_in_term,
                   events_to_create, printed, next_event>>

\* line 689: get_calendar_service raises (no credentials file, no consent)
RunServiceFails ==
    /\ rpc = "output"
    /\ ~dry_run
    /\ rpc' = "failed"
    /\ error' = "NoService"
    /\ UNCHANGED <<weekVars, scanVars, termVars, sinkVars, upserts, dry_run,
                   term_text, first_day, last_day, study_day, exams_rng,
                   breaks, single_holidays, dd_fetches, dd_html, dd_url_used,
                   breaks_in_term, holidays_in_term, events_to_create,
                   printed, next_event>>

\* line 689: the service is built, the write loop starts
RunGetService ==
    /\ rpc = "output"
    /\ ~dry_run
    /\ next_event' = 1
    /\ rpc' = "write"
    /\ UNCHANGED <<weekVars, scanVars, termVars, sinkVars, upserts, dry_run,
                   error, term_text, first_day, last_day, study_day,
                   exams_rng, breaks, single_holidays, dd_fetches, dd_html,
                   dd_url_used, breaks_in_term, holidays_in_term,
                   events_to_create, printed>>

\* lines 690-691: upsert_event on the next fact of the list
RunUpsertEvent ==
    /\ rpc = "write"
    /\ next_event <= Len(events_to_create)
    /\ LET f == events_to_create[next_event]
       IN  \/ /\ \/ UpsertUpdate(TARGET_CALENDAR_ID, f.summary, f.start, f.end)
                 \* fewer than MaxResults events: no list request is cut
                 \* short, the place of a new event is not observed
                 \/ UpsertInsert(TARGET_CALENDAR_ID, f.summary, f.start, f.end,
                                 {Len(calendar) + 1})
              /\ next_event' = next_event + 1
              /\ UNCHANGED <<rpc, error>>
           \/ /\ UpsertInsertRefused(TARGET_CALENDAR_ID, f.summary, f.start, f.end)
              /\ rpc' = "failed"
              /\ error' = "SinkRefused"
              /\ UNCHANGED next_event
    /\ UNCHANGED <<weekVars, scanVars, termVars, upserts, dry_run, term_text,
                   first_day, last_day, study_day, exams_rng, breaks,
                   single_holidays, dd_fetches, dd_html, dd_url_used,
                   breaks_in_term, holidays_in_term, events_to_create, printed>>

\* line 693: print("\nDone.")
RunDone ==
    /\ rpc = "write"
    /\ next_event > Len(events_to_create)
    /\ rpc' = "done"
    /\ UNCHANGED <<weekVars, scanVars, termVars, sinkVars, upserts, dry_run,
                   error, term_text, first_day, last_day, study_day,
                   exams_rng, breaks, single_holidays, dd_fetches, dd_html,
                   dd_url_used, breaks_in_term, holidays_in_term,
                   events_to_create, printed, next_event>>

RunNext ==
    \/ RunFetchAcademicFails
    \/ RunFetchAcademic
    \/ TermSpringNotFound
    \/ TermSpringBlock
    \/ TermFallBlock
    \/ RunSectionNotFound
    \/ RunExtractKeyDates
    \/ RunExtractBreaks
    \/ RunFetchDeadlinesFails
    \/ RunFetchDeadlines
    \/ RunNoDeadlinesPage
    \/ RunParseDeadlines
    \/ ScanDropHeader
    \/ ScanWithdrawHeader
    \/ ScanCaptureDrop
    \/ ScanCaptureWithdraw
    \/ ScanBreak
    \/ ScanPass
    \/ ScanEnd
    \/ ExtractEndDates
    \/ RunCallWeeks
    \/ WeekSkip
    \/ WeekEmit
    \/ WeekReturn
    \/ RunBuildFactList
    \/ RunDryRun
    \/ RunServiceFails
    \/ RunGetService
    \/ RunUpsertEvent
    \/ RunDone

SpecRun == RunInit /\ [][RunNext]_vars

----------------------------------------------------------------------------
(* extract_subsection on the blocks of fall pages                           *)

\* the number of lines of a fall page
MaxBlockLines == 4

\* the lines of a fall page: subsection headers, a line that holds a header
\* and more, labelled dates
SubsectionLines ==
    { FullPartOfTerm,
      Spaced(<<"2nd", "Half", "Part", "of", "Term">>),
      Spaced(<<"All", "Parts", "of", "Term">>),
      Spaced(<<"Full", "Part", "of", "Term", "Dates">>),
      Bullet(FirstDayLabel, DateLine("January", "20", "2026")),
      Bullet(LastDayLabel, DateLine("February", "2", "2026")) }

SubsectionPages == UNION {[1..n -> SubsectionLines] : n \in 0..MaxBlockLines}

\* line 533 has returned a fall page with no Spring heading, line 534 calls
\* extract_term_block_text
SubsectionInit ==
    /\ rpc = "segment"
    /\ dry_run = TRUE
    /\ year = 2026
    /\ semester = "fall"
    /\ calendar = <<>>
    /\ sink_calls = 0 /\ upserts = 0
    /\ academic_lines \in SubsectionPages
    /\ term_block = <<>> /\ tpc = "call"
    /\ error = "" /\ term_text = <<>>
    /\ first_day = NoDay /\ last_day = NoDay /\ study_day = NoDay
    /\ exams_rng = NoRange /\ breaks = <<>> /\ single_holidays = <<>>
    /\ dd_fetches = <<>> /\ dd_html = <<>> /\ dd_url_used = <<>>
    /\ breaks_in_term = <<>> /\ holidays_in_term = <<>>
    /\ events_to_create = <<>> /\ printed = {} /\ next_event = 0
    /\ WeekIdle
    /\ ScanIdle

\* lines 534-535 and the key dates of lines 538-544
SubsectionNext == TermFallBlock \/ RunExtractKeyDates

SpecSubsection == SubsectionInit /\ [][SubsectionNext]_vars

----------------------------------------------------------------------------
(* upsert_event: properties                                                 *)

\* the events of the calendar that carry a key made by ical_uid
OwnEvents == {i \in 1..Len(calendar) : Len(calendar[i].iCalUID) = 5}

\* C10: upsert_event is idempotent. After any sequence of calls the calendar
\* holds at most one event per identity key (calendar id, title, start
\* date), and no call whose key is on the calendar already attempts an
\* insert, whatever other events the calendar holds around that date.
C10_UpsertIdempotent ==
    /\ \A i, j \in OwnEvents :
           calendar[i].iCalUID = calendar[j].iCalUID => i = j
    /\ error # "SinkRefused"

----------------------------------------------------------------------------
(* The run: properties                                                      *)

\* the loop over the candidate URLs has ended
FetchLoopOver ==
    \/ rpc \in {"fetched", "parse", "weeks", "output", "write", "done"}
    \/ rpc = "failed" /\ error \in {"NoDeadlinesPage", "NoService", "SinkRefused"}

AllFetchesFailed ==
    /\ Len(dd_fetches) = Len(candidate_dates_deadlines_urls(year, semester))
    /\ \A k \in 1..Len(dd_fetches) : ~dd_fetches[k].ok

\* the candidate URLs are fetched in their order, the second only after the
\* first has failed, and the page used is that of the first fetch that
\* succeeds
FirstSuccessWins ==
    /\ \A k \in 1..Len(dd_fetches) :
           /\ dd_fetches[k].url = candidate_dates_deadlines_urls(year, semester)[k]
           /\ \A j \in 1..(k - 1) : ~dd_fetches[j].ok
           /\ dd_fetches[k].ok =>
                  dd_html = dd_fetches[k].page /\ dd_url_used = dd_fetches[k].url
    /\ rpc \in {"parse", "weeks", "output", "write", "done"} =>
           /\ \E k \in 1..Len(dd_fetches) : dd_fetches[k].ok
           /\ raw_lines = dd_html

\* C7: build_term_events tries the two candidate URLs in their fixed order,
\* first success wins: the second URL is fetched only if the first fetch
\* fails, the page used is the one the first successful fetch returned, and
\* the run fails with the no-deadlines-page error if and only if both
\* fetches fail.
C7_DeadlinesFirstSuccessWins ==
    /\ FirstSuccessWins
    /\ error = "NoDeadlinesPage" => AllFetchesFailed
    /\ AllFetchesFailed /\ rpc # "fetched" =>
           rpc = "failed" /\ error = "NoDeadlinesPage"

\* the calendar of the initial state
CalendarUntouched == calendar \in {<<>>, EarlierCalendar}

\* C8: no call to the calendar sink happens before the complete fact list
\* has been built. A run that fails because the term section is not found,
\* the first or last day of classes is missing or no deadlines page can be
\* fetched ends with zero sink calls, and a dry run makes no sink call.
C8_NoSinkCallBeforeFactList ==
    /\ sink_calls > 0 =>
           /\ ~dry_run
           /\ rpc \in {"write", "done", "failed"}
           /\ error \in {"", "SinkRefused"}
           /\ events_to_create = FactList
           /\ Len(events_to_create) >= 2
           /\ next_event \in 1..(Len(events_to_create) + 1)
           /\ sink_calls = 2 * (next_event - 1)
                            + (IF error = "SinkRefused" THEN 2 ELSE 0)
    /\ sink_calls = 0 => CalendarUntouched
    /\ error \in {"SectionNotFound", "FirstLastMissing", "NoDeadlinesPage"} =>
           /\ rpc = "failed"
           /\ sink_calls = 0
           /\ ~ENABLED RunNext
    /\ dry_run => sink_calls = 0

\* a run that wrote its whole fact list: two requests per fact
C8_Witness ==
    /\ rpc = "done"
    /\ ~dry_run
    /\ sink_calls = 2 * Len(events_to_create)
    /\ sink_calls > 0

\* a dry run that came to its end, and the three failures
C8_WitnessDryRun == rpc = "done" /\ dry_run /\ Len(events_to_create) > 2

C8_WitnessSectionNotFound == error = "SectionNotFound"

C8_WitnessFirstLastMissing == error = "FirstLastMissing"

C8_WitnessNoDeadlinesPage == error = "NoDeadlinesPage" /\ AllFetchesFailed

\* main has built the fact list
FactListBuilt == rpc \in {"output", "write", "done"}

HasFact(summary) ==
    \E i \in 1..Len(events_to_create) : events_to_create[i].summary = summary

\* the Full Part of Term carries a line "label: ..."
LabelOnPage(label) ==
    \E i \in 1..Len(term_text) :
        /\ LabelAt(term_text[i], 1, label)
        /\ Tok(term_text[i], Len(Spaced(label)) + 1) = ":"

\* the optional labels of the academic page
SoftLabels ==
    {StudyDayLabel, ExamsLabel}
    \cup {break_like_labels[i] : i \in 1..Len(break_like_labels)}
    \cup {single_holiday_labels[i] : i \in 1..Len(single_holiday_labels)}

\* the deadlines page has no FULL line in the section
DropAbsent == \A i \in 1..Len(dd_html) : ~MatchesDropPeriod(dd_html[i])

WithdrawAbsent == \A i \in 1..Len(dd_html) : ~MatchesWithdrawalPeriod(dd_html[i])

WarningFor(label) == <<"Warning:">> \o label

\* C9: in each soft case (study day, exam range, drop deadline, withdrawal
\* deadline, a break or holiday label absent) the run goes on, the fact is
\* left out of the fact list and a warning for the missing value is
\* printed.
C9_SoftCasesWarned ==
    FactListBuilt =>
        /\ \A label \in SoftLabels :
               ~LabelOnPage(label) =>
                   ~HasFact(label) /\ WarningFor(label) \in printed
        /\ DropAbsent => ~HasFact(DropSummary) /\ WarnDrop \in printed
        /\ WithdrawAbsent => ~HasFact(WithdrawSummary) /\ WarnWithdraw \in printed

----------------------------------------------------------------------------
(* DateRange: properties                                                    *)

Ordered(r) == r.start <= r.end

\* C11: every DateRange constructed during a run satisfies start <= end:
\* the ranges parse_range returns, the results of DateRange.clamp, the
\* clamped week windows built by the segmenter and the blackout ranges built
\* by the orchestrator. The term range is taken as ordered here: the week
\* windows are those of a term whose first day is not after its last day.
C11_RangesOrdered ==
    /\ \A i \in 1..Len(blackout_ranges) : Ordered(blackout_ranges[i])
    /\ wpc # "idle" /\ first_class <= last_class =>
           \A m \in WeeksDone : Ordered(week_range(m))
    /\ exams_rng # NoRange => Ordered(exams_rng)
    /\ \A i \in 1..Len(breaks) : Ordered(breaks[i][2])
    /\ \A i \in 1..Len(breaks_in_term) : Ordered(breaks_in_term[i][2])
    /\ \A i \in 1..Len(holidays_in_term) : Ordered(holidays_in_term[i][2])

----------------------------------------------------------------------------
(* Properties of extract_subsection                                         *)

\* line 535 has run on the block line 534 returned
SubsectionTaken == tpc = "returned" /\ rpc \in {"breaks", "failed"}

\* the positions of the block's lines equal to "Full Part of Term"
HeaderLines == {i \in 1..Len(term_block) : term_block[i] = FullPartOfTerm}

\* C13: extract_subsection(block, header) returns the block unchanged when
\* no line of it equals header; otherwise the contiguous run of lines that
\* starts at the first line equal to header and ends just before the next
\* later line equal to a recognized subsection header, or at the end of the
\* block: no recognized header after the first line of the result.
C13_SubsectionRun ==
    SubsectionTaken =>
        IF HeaderLines = {} THEN term_text = term_block
        ELSE LET s == SetMin(HeaderLines)
                 n == Len(term_text)
             IN  /\ n >= 1
                 /\ s + n - 1 <= Len(term_block)
                 /\ \A k \in 1..n : term_text[k] = term_block[s + k - 1]
                 /\ \A k \in 2..n : term_text[k] \notin subsection_headers
                 /\ s + n <= Len(term_block) =>
                        term_block[s + n] \in subsection_headers

\* a subsection cut out of the middle of a block: a line before the header,
\* one line inside, the header of another part of term behind
C13_Witness ==
    /\ SubsectionTaken
    /\ HeaderLines # {}
    /\ SetMin(HeaderLines) > 1
    /\ Len(term_text) = 2
    /\ SetMin(HeaderLines) + 2 <= Len(term_block)

\* the block returned unchanged: no line equal to the header, though one
\* line holds the header's words and more
C13_WitnessNotFound ==
    /\ SubsectionTaken
    /\ HeaderLines = {}
    /\ \E i \in 1..Len(term_block) :
           term_block[i] = Spaced(<<"Full", "Part", "of", "Term", "Dates">>)
    /\ term_text = term_block
    /\ Len(term_text) >= 2

----------------------------------------------------------------------------
(* The states of the deadline section scanner                               *)

\* the header line read last before position i, 0 when there is none
LastHeaderBefore(i) ==
    LET H == HeadersBefore(i)
    IN  IF H = {} THEN 0 ELSE SetMax(H)

\* C14: after any prefix of the lines the scanner is in exactly one of the
\* states Neither, InDrop, InWithdraw (the two flags are never both true),
\* and the state is that of the most recent header line alone: InDrop if it
\* matched "Drop Period", InWithdraw if it matched "Withdrawal Period" and
\* not "Drop Period", Neither if no header line has been read, so that a
\* non-header line never changes the state. A header line is consumed and
\* never captured as a full-session line, even when it starts with FULL.
C14_ScannerStates ==
    dpc # "idle" =>
        /\ ~(in_drop /\ in_withdraw)
        /\ LET h == LastHeaderBefore(idx)
           IN  IF h = 0 THEN ~in_drop /\ ~in_withdraw
               ELSE IF MatchesDropPeriod(lines[h]) THEN in_drop
               ELSE MatchesWithdrawalPeriod(lines[h]) /\ in_withdraw
        /\ full_drop_line # NoLine => ~IsHeaderLine(full_drop_line)
        /\ full_withdraw_line # NoLine => ~IsHeaderLine(full_withdraw_line)

\* a header line that starts with FULL and matches both headers was read in
\* state InWithdraw with no withdrawal line captured yet: it was consumed,
\* nothing was captured, and the state is InDrop
C14_Witness ==
    /\ dpc = "scan"
    /\ idx > 1
    /\ IsFullLine(lines[idx - 1])
    /\ MatchesDropPeriod(lines[idx - 1])
    /\ MatchesWithdrawalPeriod(lines[idx - 1])
    /\ SectionAt(idx - 1) = "InWithdraw"
    /\ full_withdraw_line = NoLine
    /\ in_drop /\ ~in_withdraw

====
